---- MODULE Spec2Model ----
(***************************************************************************)
(* User authentication service: the Auth class (auth.py) over the DB       *)
(* store adapter (db.py), driven by the Flask handlers (app.py).           *)
(*                                                                         *)
(* Python values are modelled as follows: strings are strings, None is the *)
(* distinguished value None, an exception is a result of kind "raise", a   *)
(* User row is a record with the five columns of the users table.          *)
(***************************************************************************)
EXTENDS Integers, Sequences, FiniteSets, TLC

VARIABLES
    users,      \* the rows of the users table, in insertion (rowid) order
    nextTok,    \* number of uuid4() draws made so far, plus one
    last,       \* the last Auth call: its name, arguments, result, store calls
    plain,      \* history: per row, the plaintext last hashed into the row
    pre,        \* history: users, plain and nextTok as they were before the last call
    pc          \* per concurrent request: where it stands in its handler

vars == <<users, nextTok, last, plain, pre, pc>>

----------------------------------------------------------------------------
(* Bounds of the model *)

\* uuid4() draws a run may make
MaxTokens == 2
\* rows the table may hold when requests run concurrently
MaxRows == 3
None == "None"

\* main.py: the account and the two passwords of the end-to-end run
EMAIL == "guillaume@holberton.io"
PASSWD == "b4l0u"
NEW_PASSWD == "t4rt1fl3tt3"

\* a second account
OTHER_EMAIL == "bob@holberton.io"

Emails == {EMAIL, OTHER_EMAIL}
Passwords == {PASSWD, NEW_PASSWD}
\* values bcrypt.gensalt() may return
Salts == {"saltA", "saltB"}
Token(n) == "uuid" \o ToString(n)
Tokens == {Token(n) : n \in 1..MaxTokens}
Procs == {1, 2}

----------------------------------------------------------------------------
(* Results of a call *)

RetNone == [kind |-> "None"]
RetUser(u) == [kind |-> "User", user |-> u]
RetStr(s) == [kind |-> "str", val |-> s]
RetBool(b) == [kind |-> "bool", val |-> b]
Raise(e) == [kind |-> "raise", exc |-> e]

----------------------------------------------------------------------------
(* bcrypt *)

\* bcrypt.hashpw(password, salt): the digest embeds the salt it was made with.
hashpw(password, salt) == [salt |-> salt, hash |-> <<salt, password>>]

\* bcrypt.checkpw(password, hashed): rehash with the embedded salt and compare.
checkpw(password, hashed) == hashpw(password, hashed.salt) = hashed

\* auth.py _hash_password, the salt being the draw of bcrypt.gensalt().
hash_password(password, salt) == hashpw(password, salt)

\* A generator that returns the same value on every draw.
generate_uuid_Constant(n) == Token(1)

\* auth.py _generate_uuid, n being the number of the uuid4() draw.
generate_uuid(n) == Token(n)

----------------------------------------------------------------------------
(* user.py: the User row *)

UserColumns == {"id", "email", "hashed_password", "session_id", "reset_token"}

NewUser(id, email, hashed_password) ==
    [id |-> id, email |-> email, hashed_password |-> hashed_password,
     session_id |-> None, reset_token |-> None]

----------------------------------------------------------------------------
(* db.py: the store adapter *)

Min(S) == CHOOSE x \in S : \A y \in S : x <= y

Max(S) == CHOOSE x \in S : \A y \in S : x >= y

\* The integer primary key of a new row: one more than the largest in use.
NextId(us) == IF us = <<>> THEN 1 ELSE Max({us[i].id : i \in 1..Len(us)}) + 1

\* DB.add_user: the new row gets the next id.
add_user(us, email, hashed_password) ==
    Append(us, NewUser(NextId(us), email, hashed_password))

\* Position of the first row whose attribute key equals value, 0 when none.
FirstMatch(us, key, value) ==
    LET m == {i \in 1..Len(us) : us[i][key] = value}
    IN  IF m = {} THEN 0 ELSE Min(m)

\* find_user_by that answers None, not NoResultFound, when no row matches.
find_user_by_Default(us, key, value) ==
    IF key \notin UserColumns
    THEN Raise("InvalidRequestError")
    ELSE IF FirstMatch(us, key, value) = 0
         THEN RetNone
         ELSE RetUser(us[FirstMatch(us, key, value)])

\* DB.find_user_by with one keyword argument.
find_user_by(us, key, value) ==
    IF key \notin UserColumns
    THEN Raise("InvalidRequestError")
    ELSE IF FirstMatch(us, key, value) = 0
         THEN Raise("NoResultFound")
         ELSE RetUser(us[FirstMatch(us, key, value)])

\* hasattr(user, key) for a User instance.
hasattr(u, key) == key \in UserColumns

\* The loop of DB.update_user over kwargs (a sequence of <<key, value>>):
\* every setattr before the first unknown key has been made when it raises.
RECURSIVE SetAttrs(_, _)
SetAttrs(u, kwargs) ==
    IF kwargs = <<>>
    THEN [exc |-> None, user |-> u]
    ELSE IF hasattr(u, kwargs[1][1])
         THEN SetAttrs([u EXCEPT ![kwargs[1][1]] = kwargs[1][2]], Tail(kwargs))
         ELSE [exc |-> "ValueError", user |-> u]

\* update_user that does nothing, and does not fail, for an unknown id.
update_user_IgnoreMissing(us, user_id, kwargs) ==
    IF FirstMatch(us, "id", user_id) = 0
    THEN [exc |-> None, users |-> us]
    ELSE LET i == FirstMatch(us, "id", user_id)
             r == SetAttrs(us[i], kwargs)
         IN  [exc |-> r.exc, users |-> [us EXCEPT ![i] = r.user]]

\* DB.update_user: its find_user_by is outside the try, so NoResultFound
\* propagates; the row object is the one found by id.
update_user(us, user_id, kwargs) ==
    IF FirstMatch(us, "id", user_id) = 0
    THEN [exc |-> "NoResultFound", users |-> us]
    ELSE LET i == FirstMatch(us, "id", user_id)
             r == SetAttrs(us[i], kwargs)
         IN  [exc |-> r.exc, users |-> [us EXCEPT ![i] = r.user]]

----------------------------------------------------------------------------
(* auth.py: the Auth class.  Each method is an operator from the table and *)
(* the arguments to [ret, users, calls]: the result (or the exception), the *)
(* table afterwards and the number of store calls the method made.         *)

\* register_user without the existence check: the row is always inserted.
register_user_NoPrecheck(us, email, password, salt) ==
    LET new == add_user(us, email, hash_password(password, salt))
    IN  [ret |-> RetUser(new[Len(new)]), users |-> new, calls |-> 1]

\* Auth.register_user
register_user(us, email, password, salt) ==
    LET f == find_user_by(us, "email", email)
    IN  IF f.kind = "User"
        THEN [ret |-> Raise("ValueError"), users |-> us, calls |-> 1]
        ELSE IF f.exc = "NoResultFound"
             THEN LET new == add_user(us, email, hash_password(password, salt))
                  IN  [ret |-> RetUser(new[Len(new)]), users |-> new, calls |-> 2]
             ELSE [ret |-> f, users |-> us, calls |-> 1]

\* valid_login that accepts any password of a known user.
valid_login_NoCheck(us, email, password) ==
    [ret |-> RetBool(FirstMatch(us, "email", email) # 0), users |-> us, calls |-> 1]

\* Auth.valid_login
valid_login(us, email, password) ==
    LET f == find_user_by(us, "email", email)
    IN  IF f.kind = "User"
        THEN [ret |-> RetBool(checkpw(password, f.user.hashed_password)),
              users |-> us, calls |-> 1]
        ELSE IF f.exc = "NoResultFound"
             THEN [ret |-> RetBool(FALSE), users |-> us, calls |-> 1]
             ELSE [ret |-> f, users |-> us, calls |-> 1]

\* create_session that raises for an unknown email, as the reset path does.
create_session_RaiseUnknown(us, email, n) ==
    LET f == find_user_by(us, "email", email)
    IN  IF f.kind = "User"
        THEN [ret |-> RetStr(generate_uuid(n)),
              users |-> update_user(us, f.user.id,
                            <<<<"session_id", generate_uuid(n)>>>>).users,
              calls |-> 2]
        ELSE [ret |-> Raise("ValueError"), users |-> us, calls |-> 1]

\* create_session that returns the new id without storing it.
create_session_NoPersist(us, email, n) ==
    IF FirstMatch(us, "email", email) # 0
    THEN [ret |-> RetStr(generate_uuid(n)), users |-> us, calls |-> 2]
    ELSE [ret |-> RetNone, users |-> us, calls |-> 1]

\* create_session that hands back the session id the user already holds.
create_session_KeepExisting(us, email, n) ==
    LET f == find_user_by(us, "email", email)
    IN  IF f.kind = "User" /\ f.user.session_id # None
        THEN [ret |-> RetStr(f.user.session_id), users |-> us, calls |-> 2]
        ELSE IF f.kind = "User"
             THEN [ret |-> RetStr(generate_uuid(n)),
                   users |-> update_user(us, f.user.id,
                                 <<<<"session_id", generate_uuid(n)>>>>).users,
                   calls |-> 2]
             ELSE [ret |-> RetNone, users |-> us, calls |-> 1]

\* Auth.create_session, n being the number of the uuid4() draw it makes.
create_session(us, email, n) ==
    LET f == find_user_by(us, "email", email)
    IN  IF f.kind = "User"
        THEN LET session_id == generate_uuid(n)
                 u == update_user(us, f.user.id, <<<<"session_id", session_id>>>>)
             IN  [ret |-> IF u.exc = None THEN RetStr(session_id) ELSE Raise(u.exc),
                  users |-> u.users, calls |-> 2]
        ELSE IF f.exc = "NoResultFound"
             THEN [ret |-> RetNone, users |-> us, calls |-> 1]
             ELSE [ret |-> f, users |-> us, calls |-> 1]

\* get_user_from_session_id without the test for None.
get_user_from_session_id_NoGuard(us, session_id) ==
    LET f == find_user_by(us, "session_id", session_id)
    IN  [ret |-> IF f.kind = "User" THEN f ELSE RetNone, users |-> us, calls |-> 1]

\* Auth.get_user_from_session_id
get_user_from_session_id(us, session_id) ==
    IF session_id = None
    THEN [ret |-> RetNone, users |-> us, calls |-> 0]
    ELSE LET f == find_user_by(us, "session_id", session_id)
         IN  IF f.kind = "User"
             THEN [ret |-> f, users |-> us, calls |-> 1]
             ELSE IF f.exc = "NoResultFound"
                  THEN [ret |-> RetNone, users |-> us, calls |-> 1]
                  ELSE [ret |-> f, users |-> us, calls |-> 1]

\* destroy_session that clears the session of every user.
destroy_session_All(us, user_id) ==
    [ret |-> RetNone,
     users |-> [i \in 1..Len(us) |-> [us[i] EXCEPT !.session_id = None]],
     calls |-> 2]

\* destroy_session that looks the user up and writes nothing.
destroy_session_Noop(us, user_id) ==
    [ret |-> RetNone, users |-> us, calls |-> 1]

\* Auth.destroy_session: NoResultFound of either store call is swallowed.
destroy_session(us, user_id) ==
    LET f == find_user_by(us, "id", user_id)
    IN  IF f.kind = "User"
        THEN LET u == update_user(us, f.user.id, <<<<"session_id", None>>>>)
             IN  [ret |-> IF u.exc \in {None, "NoResultFound"}
                          THEN RetNone ELSE Raise(u.exc),
                  users |-> u.users, calls |-> 2]
        ELSE IF f.exc = "NoResultFound"
             THEN [ret |-> RetNone, users |-> us, calls |-> 1]
             ELSE [ret |-> f, users |-> us, calls |-> 1]

\* get_reset_password_token that answers None for an unknown email, as the
\* session path does.
get_reset_password_token_Soft(us, email, n) ==
    LET f == find_user_by(us, "email", email)
    IN  IF f.kind = "User"
        THEN [ret |-> RetStr(generate_uuid(n)),
              users |-> update_user(us, f.user.id,
                            <<<<"reset_token", generate_uuid(n)>>>>).users,
              calls |-> 2]
        ELSE [ret |-> RetNone, users |-> us, calls |-> 1]

\* Auth.get_reset_password_token, n being the number of its uuid4() draw.
get_reset_password_token(us, email, n) ==
    LET f == find_user_by(us, "email", email)
    IN  IF f.kind = "User"
        THEN LET reset_token == generate_uuid(n)
                 u == update_user(us, f.user.id, <<<<"reset_token", reset_token>>>>)
             IN  [ret |-> IF u.exc = None THEN RetStr(reset_token) ELSE Raise(u.exc),
                  users |-> u.users, calls |-> 2]
        ELSE IF f.exc = "NoResultFound"
             THEN [ret |-> Raise("ValueError"), users |-> us, calls |-> 1]
             ELSE [ret |-> f, users |-> us, calls |-> 1]

\* update_password that also ends the user's session.
update_password_DropSession(us, reset_token, password, salt) ==
    LET f == find_user_by(us, "reset_token", reset_token)
    IN  IF f.kind = "User"
        THEN [ret |-> RetNone,
              users |-> update_user(us, f.user.id,
                            <<<<"hashed_password", hash_password(password, salt)>>,
                              <<"reset_token", None>>,
                              <<"session_id", None>>>>).users,
              calls |-> 2]
        ELSE [ret |-> Raise("ValueError"), users |-> us, calls |-> 1]

\* update_password that stores the new digest and leaves reset_token set.
update_password_KeepToken(us, reset_token, password, salt) ==
    LET f == find_user_by(us, "reset_token", reset_token)
    IN  IF f.kind = "User"
        THEN [ret |-> RetNone,
              users |-> update_user(us, f.user.id,
                            <<<<"hashed_password", hash_password(password, salt)>>>>).users,
              calls |-> 2]
        ELSE [ret |-> Raise("ValueError"), users |-> us, calls |-> 1]

\* update_password that clears reset_token and leaves the old digest.
update_password_KeepHash(us, reset_token, password, salt) ==
    LET f == find_user_by(us, "reset_token", reset_token)
    IN  IF f.kind = "User"
        THEN [ret |-> RetNone,
              users |-> update_user(us, f.user.id, <<<<"reset_token", None>>>>).users,
              calls |-> 2]
        ELSE [ret |-> Raise("ValueError"), users |-> us, calls |-> 1]

\* Auth.update_password
update_password(us, reset_token, password, salt) ==
    LET f == find_user_by(us, "reset_token", reset_token)
    IN  IF f.kind = "User"
        THEN LET hashed_pwd == hash_password(password, salt)
                 u == update_user(us, f.user.id,
                                  <<<<"hashed_password", hashed_pwd>>,
                                    <<"reset_token", None>>>>)
             IN  [ret |-> IF u.exc = None THEN RetNone ELSE Raise(u.exc),
                  users |-> u.users, calls |-> 2]
        ELSE IF f.exc = "NoResultFound"
             THEN [ret |-> Raise("ValueError"), users |-> us, calls |-> 1]
             ELSE [ret |-> f, users |-> us, calls |-> 1]

----------------------------------------------------------------------------
(* The service used by one caller at a time, as main.py drives it: each    *)
(* Auth call runs to completion before the next one starts.                *)

Idle == [p \in Procs |-> [at |-> "idle"]]

Init ==
    /\ users = <<>>
    /\ nextTok = 1
    /\ last = [op |-> "init", args |-> [none |-> None], ret |-> RetNone, calls |-> 0]
    /\ plain = <<>>
    /\ pre = [users |-> <<>>, plain |-> <<>>, nextTok |-> 1]
    /\ pc = Idle

\* The call op(args) returned r.
Done(op, args, r) ==
    /\ users' = r.users
    /\ last' = [op |-> op, args |-> args, ret |-> r.ret, calls |-> r.calls]
    /\ pre' = [users |-> users, plain |-> plain, nextTok |-> nextTok]

\* History: the plaintext behind each row's digest after a call given password.
Plain(old, new, password) ==
    [i \in 1..Len(new) |->
        IF i > Len(old) \/ new[i].hashed_password # old[i].hashed_password
        THEN password ELSE plain[i]]

\* The salt is drawn only on the path that hashes.
RegisterUser(email, password) ==
    \E salt \in IF FirstMatch(users, "email", email) = 0 THEN Salts ELSE {None} :
        LET r == register_user(users, email, password, salt)
        IN  /\ Done("register_user", [email |-> email, password |-> password], r)
            /\ plain' = Plain(users, r.users, password)
            /\ UNCHANGED <<nextTok, pc>>

ValidLogin(email, password) ==
    LET r == valid_login(users, email, password)
    IN  /\ Done("valid_login", [email |-> email, password |-> password], r)
        /\ UNCHANGED <<nextTok, plain, pc>>

\* The uuid is drawn only when the user was found.
CreateSession(email) ==
    LET r == create_session(users, email, nextTok)
        drew == r.calls = 2
    IN  /\ drew => nextTok <= MaxTokens
        /\ Done("create_session", [email |-> email], r)
        /\ nextTok' = IF drew THEN nextTok + 1 ELSE nextTok
        /\ UNCHANGED <<plain, pc>>

GetUserFromSessionId(session_id) ==
    LET r == get_user_from_session_id(users, session_id)
    IN  /\ Done("get_user_from_session_id", [session_id |-> session_id], r)
        /\ UNCHANGED <<nextTok, plain, pc>>

DestroySession(user_id) ==
    LET r == destroy_session(users, user_id)
    IN  /\ Done("destroy_session", [user_id |-> user_id], r)
        /\ UNCHANGED <<nextTok, plain, pc>>

GetResetPasswordToken(email) ==
    LET r == get_reset_password_token(users, email, nextTok)
        drew == r.calls = 2
    IN  /\ drew => nextTok <= MaxTokens
        /\ Done("get_reset_password_token", [email |-> email], r)
        /\ nextTok' = IF drew THEN nextTok + 1 ELSE nextTok
        /\ UNCHANGED <<plain, pc>>

UpdatePassword(reset_token, password) ==
    \E salt \in IF FirstMatch(users, "reset_token", reset_token) = 0
                THEN {None} ELSE Salts :
        LET r == update_password(users, reset_token, password, salt)
        IN  /\ Done("update_password",
                    [reset_token |-> reset_token, password |-> password], r)
            /\ plain' = Plain(users, r.users, password)
            /\ UNCHANGED <<nextTok, pc>>

\* The values a caller can present as a session id, a reset token, a user id.
SessionIds == {None, ""} \cup Tokens
ResetTokens == {None} \cup Tokens
UserIds == 1..(Cardinality(Emails) + 1)

Next ==
    \/ \E e \in Emails, p \in Passwords : RegisterUser(e, p)
    \/ \E e \in Emails, p \in Passwords : ValidLogin(e, p)
    \/ \E e \in Emails : CreateSession(e)
    \/ \E sid \in SessionIds : GetUserFromSessionId(sid)
    \/ \E id \in UserIds : DestroySession(id)
    \/ \E e \in Emails : GetResetPasswordToken(e)
    \/ \E t \in ResetTokens, p \in Passwords : UpdatePassword(t, p)

Spec == Init /\ [][Next]_vars

----------------------------------------------------------------------------
(* The service under app.py's threaded server: two requests at a time, the *)
(* store calls of a handler being separate steps that interleave with the  *)
(* other request's.                                                        *)

Inserting == {p \in Procs : pc[p].at = "register_user:add_user"}

\* auth.py 55-57: the existence check of register_user.
RegisterLookup(p, email, password) ==
    /\ pc[p].at = "idle"
    /\ Len(users) + Cardinality(Inserting) < MaxRows
    /\ LET f == find_user_by(users, "email", email)
       IN  IF f.kind = "User"
           THEN /\ Done("register_user", [email |-> email, password |-> password],
                        [ret |-> Raise("ValueError"), users |-> users, calls |-> 1])
                /\ UNCHANGED <<nextTok, plain, pc>>
           ELSE /\ pc' = [pc EXCEPT ![p] = [at |-> "register_user:add_user",
                                            email |-> email, password |-> password]]
                /\ UNCHANGED <<users, nextTok, last, plain, pre>>

\* auth.py 59-62: the hash and the insert of register_user.
RegisterInsert(p) ==
    /\ pc[p].at = "register_user:add_user"
    /\ \E salt \in Salts :
           LET new == add_user(users, pc[p].email, hash_password(pc[p].password, salt))
           IN  /\ Done("register_user",
                       [email |-> pc[p].email, password |-> pc[p].password],
                       [ret |-> RetUser(new[Len(new)]), users |-> new, calls |-> 2])
               /\ plain' = Plain(users, new, pc[p].password)
    /\ pc' = [pc EXCEPT ![p] = [at |-> "idle"]]
    /\ UNCHANGED nextTok

\* Requests that have found their user and will draw a uuid.
Drawing == {p \in Procs : pc[p].at = "create_session:update_user"}

\* The request of p returned: what it was and what it answered.
Returned(p, op, args, ret) ==
    pc' = [pc EXCEPT ![p] = [at |-> "idle", op |-> op, args |-> args, ret |-> ret]]

\* auth.py 91-96: the lookup of create_session.  overlap tells whether the
\* other request was between its lookup and its update for the same email.
CreateSessionLookup(p, email) ==
    /\ pc[p].at = "idle"
    /\ LET f == find_user_by(users, "email", email)
       IN  IF f.kind = "User"
           THEN /\ nextTok + Cardinality(Drawing) <= MaxTokens
                /\ pc' = [pc EXCEPT ![p] =
                              [at |-> "create_session:update_user", email |-> email,
                               user_id |-> f.user.id,
                               overlap |-> \E q \in Drawing : pc[q].email = email]]
                /\ UNCHANGED <<users, nextTok, last, plain, pre>>
           ELSE /\ Done("create_session", [email |-> email],
                        [ret |-> RetNone, users |-> users, calls |-> 1])
                /\ Returned(p, "create_session",
                            [email |-> email, overlap |-> FALSE], RetNone)
                /\ UNCHANGED <<nextTok, plain>>

\* create_session whose update leaves a session id that is already set.
CreateSessionUpdate_FirstWins(p) ==
    /\ pc[p].at = "create_session:update_user"
    /\ LET session_id == generate_uuid(nextTok)
           i == FirstMatch(users, "id", pc[p].user_id)
           new == IF users[i].session_id = None
                  THEN [users EXCEPT ![i].session_id = session_id] ELSE users
       IN  /\ Done("create_session", [email |-> pc[p].email],
                   [ret |-> RetStr(session_id), users |-> new, calls |-> 2])
           /\ Returned(p, "create_session",
                       [email |-> pc[p].email, overlap |-> pc[p].overlap],
                       RetStr(session_id))
    /\ nextTok' = nextTok + 1
    /\ UNCHANGED plain

\* auth.py 98-102: the uuid draw and the update of create_session.
CreateSessionUpdate(p) ==
    /\ pc[p].at = "create_session:update_user"
    /\ LET session_id == generate_uuid(nextTok)
           u == update_user(users, pc[p].user_id, <<<<"session_id", session_id>>>>)
           ret == IF u.exc = None THEN RetStr(session_id) ELSE Raise(u.exc)
       IN  /\ Done("create_session", [email |-> pc[p].email],
                   [ret |-> ret, users |-> u.users, calls |-> 2])
           /\ Returned(p, "create_session",
                       [email |-> pc[p].email, overlap |-> pc[p].overlap], ret)
    /\ nextTok' = nextTok + 1
    /\ UNCHANGED plain

\* Auth.get_reset_password_token, run to completion by an idle request.
ResetTokenRequest(p, email) ==
    /\ pc[p].at = "idle"
    /\ nextTok + Cardinality(Drawing) <= MaxTokens
    /\ GetResetPasswordToken(email)

\* auth.py 162-165: the lookup of update_password.
UpdatePasswordLookup(p, reset_token, password) ==
    /\ pc[p].at = "idle"
    /\ LET f == find_user_by(users, "reset_token", reset_token)
           args == [reset_token |-> reset_token, password |-> password]
       IN  IF f.kind = "User"
           THEN /\ pc' = [pc EXCEPT ![p] =
                              [at |-> "update_password:update_user",
                               reset_token |-> reset_token, password |-> password,
                               user_id |-> f.user.id]]
                /\ UNCHANGED <<users, nextTok, last, plain, pre>>
           ELSE /\ Done("update_password", args,
                        [ret |-> Raise("ValueError"), users |-> users, calls |-> 1])
                /\ Returned(p, "update_password", [reset_token |-> reset_token],
                            Raise("ValueError"))
                /\ UNCHANGED <<nextTok, plain>>

\* auth.py 167-170: the hash and the combined update of update_password.
UpdatePasswordUpdate(p) ==
    /\ pc[p].at = "update_password:update_user"
    /\ \E salt \in Salts :
           LET hashed_pwd == hash_password(pc[p].password, salt)
               u == update_user(users, pc[p].user_id,
                                <<<<"hashed_password", hashed_pwd>>,
                                  <<"reset_token", None>>>>)
               args == [reset_token |-> pc[p].reset_token, password |-> pc[p].password]
               ret == IF u.exc = None THEN RetNone ELSE Raise(u.exc)
           IN  /\ Done("update_password", args,
                       [ret |-> ret, users |-> u.users, calls |-> 2])
               /\ Returned(p, "update_password",
                           [reset_token |-> pc[p].reset_token], ret)
               /\ plain' = Plain(users, u.users, pc[p].password)
    /\ UNCHANGED nextTok

\* Concurrent registrations.
NextConc ==
    \/ \E p \in Procs, e \in Emails, pw \in Passwords : RegisterLookup(p, e, pw)
    \/ \E p \in Procs : RegisterInsert(p)

\* Concurrent logins of registered users.
NextConcSession ==
    \/ \E e \in Emails, pw \in Passwords : RegisterUser(e, pw)
    \/ \E p \in Procs, e \in Emails : CreateSessionLookup(p, e)
    \/ \E p \in Procs : CreateSessionUpdate(p)

SpecConcSession == Init /\ [][NextConcSession]_vars

\* Concurrent password resets of registered users.
NextConcReset ==
    \/ \E e \in Emails, pw \in Passwords : RegisterUser(e, pw)
    \/ \E p \in Procs, e \in Emails : ResetTokenRequest(p, e)
    \/ \E p \in Procs, t \in Tokens, pw \in Passwords :
           UpdatePasswordLookup(p, t, pw)
    \/ \E p \in Procs : UpdatePasswordUpdate(p)

SpecConcReset == Init /\ [][NextConcReset]_vars

SpecConc == Init /\ [][NextConc]_vars

----------------------------------------------------------------------------
(* The HTTP boundary of app.py: each handler reads its form fields, calls  *)
(* Auth and answers with a status, an optional session_id cookie and an    *)
(* optional reset_token in the body.                                       *)

\* request.form.get(name): the submitted value, or None when absent.
Form(S) == S \cup {None}

Response(status, cookie, reset_token) ==
    [kind |-> "response", status |-> status, cookie |-> cookie,
     reset_token |-> reset_token]

\* Python's `not v` for a form value.
Falsy(v) == v = None \/ v = ""

\* app.py users: POST /users
app_users(us, email, password, salt) ==
    IF Falsy(email) \/ Falsy(password)
    THEN [ret |-> Response(400, None, None), users |-> us, calls |-> 0]
    ELSE LET r == register_user(us, email, password, salt)
         IN  [ret |-> Response(IF r.ret.kind = "User" THEN 200 ELSE 400, None, None),
              users |-> r.users, calls |-> r.calls]

\* login that opens a session without checking the credentials.
app_login_NoCheck(us, email, password, n) ==
    IF Falsy(email) \/ Falsy(password)
    THEN [ret |-> Response(400, None, None), users |-> us, calls |-> 0]
    ELSE LET c == create_session(us, email, n)
         IN  IF c.ret.kind # "str"
             THEN [ret |-> Response(401, None, None), users |-> c.users,
                   calls |-> 1 + c.calls]
             ELSE [ret |-> Response(200, c.ret.val, None), users |-> c.users,
                   calls |-> 1 + c.calls]

\* app.py login: POST /sessions
app_login(us, email, password, n) ==
    IF Falsy(email) \/ Falsy(password)
    THEN [ret |-> Response(400, None, None), users |-> us, calls |-> 0]
    ELSE LET v == valid_login(us, email, password)
         IN  IF v.ret # RetBool(TRUE)
             THEN [ret |-> Response(401, None, None), users |-> v.users,
                   calls |-> v.calls]
             ELSE LET c == create_session(v.users, email, n)
                  IN  IF c.ret.kind # "str"
                      THEN [ret |-> Response(401, None, None), users |-> c.users,
                            calls |-> v.calls + c.calls]
                      ELSE [ret |-> Response(200, c.ret.val, None),
                            users |-> c.users, calls |-> v.calls + c.calls]

\* app.py get_reset_password_token: POST /reset_password
app_get_reset_password_token(us, email, n) ==
    IF Falsy(email)
    THEN [ret |-> Response(400, None, None), users |-> us, calls |-> 0]
    ELSE LET r == get_reset_password_token(us, email, n)
         IN  IF r.ret.kind = "str"
             THEN [ret |-> Response(200, None, r.ret.val), users |-> r.users,
                   calls |-> r.calls]
             ELSE [ret |-> Response(403, None, None), users |-> r.users,
                   calls |-> r.calls]

PostUsers(email, password) ==
    \E salt \in IF Falsy(email) \/ Falsy(password)
                    \/ FirstMatch(users, "email", email) # 0
                 THEN {None} ELSE Salts :
        LET r == app_users(users, email, password, salt)
        IN  /\ Done("POST /users", [email |-> email, password |-> password], r)
            /\ plain' = Plain(users, r.users, password)
            /\ UNCHANGED <<nextTok, pc>>

PostSessions(email, password) ==
    LET r == app_login(users, email, password, nextTok)
        drew == r.ret.cookie # None
    IN  /\ drew => nextTok <= MaxTokens
        /\ Done("POST /sessions", [email |-> email, password |-> password], r)
        /\ nextTok' = IF drew THEN nextTok + 1 ELSE nextTok
        /\ UNCHANGED <<plain, pc>>

PostResetPassword(email) ==
    LET r == app_get_reset_password_token(users, email, nextTok)
        drew == r.ret.reset_token # None
    IN  /\ drew => nextTok <= MaxTokens
        /\ Done("POST /reset_password", [email |-> email], r)
        /\ nextTok' = IF drew THEN nextTok + 1 ELSE nextTok
        /\ UNCHANGED <<plain, pc>>

\* Requests served one at a time.
NextHttp ==
    \/ \E e \in Form(Emails), p \in Form(Passwords) : PostUsers(e, p)
    \/ \E e \in Form(Emails), p \in Form(Passwords) : PostSessions(e, p)
    \/ \E e \in Form(Emails) : PostResetPassword(e)

SpecHttp == Init /\ [][NextHttp]_vars

----------------------------------------------------------------------------
(* The store adapter called directly, with any keyword a caller can write. *)

\* Rows of the table in the direct calls.
MaxDBRows == 2

\* A keyword that names no attribute of User.
NoAttribute == "password"

DBKeys == UserColumns \cup {NoAttribute}

\* The values a caller looks up under each keyword.
DBValues(key) ==
    CASE key = "id" -> 1..MaxDBRows
      [] key = "email" -> Emails
      [] key = "hashed_password" -> {hash_password(p, "saltA") : p \in {PASSWD, NEW_PASSWD}}
      [] key = "session_id" -> {None, Token(1)}
      [] key = "reset_token" -> {None, Token(1)}
      [] OTHER -> {PASSWD}

\* The keyword arguments a caller updates with: the primary key, a session
\* id set or cleared, and a keyword that names no attribute.
KeyValues ==
    {<<"id", v>> : v \in DBValues("id")}
        \cup {<<"session_id", v>> : v \in DBValues("session_id")}
        \cup {<<NoAttribute, PASSWD>>}

\* **kwargs of one keyword, or of two in the order written: a keyword
\* followed by reset_token=None (as Auth.update_password passes it) or by a
\* keyword that names no attribute.
Kwargs ==
    {<<kv>> : kv \in KeyValues}
        \cup {kw \in {<<a, b>> : a \in KeyValues,
                                 b \in {<<"reset_token", None>>, <<NoAttribute, PASSWD>>}} :
                  kw[1][1] # kw[2][1]}

AddUser(email, hashed_password) ==
    /\ Len(users) < MaxDBRows
    /\ Done("add_user", [email |-> email, hashed_password |-> hashed_password],
            [ret |-> RetUser(NewUser(NextId(users), email, hashed_password)),
             users |-> add_user(users, email, hashed_password), calls |-> 1])
    /\ UNCHANGED <<nextTok, plain, pc>>

FindUserBy(key, value) ==
    /\ Done("find_user_by", [key |-> key, value |-> value],
            [ret |-> find_user_by(users, key, value), users |-> users, calls |-> 1])
    /\ UNCHANGED <<nextTok, plain, pc>>

\* The primary key refuses an id another row holds: such a call is not made.
UpdateUser(user_id, kwargs) ==
    /\ \A j \in 1..Len(kwargs) :
           kwargs[j][1] = "id" =>
               \A i \in 1..Len(users) :
                   users[i].id = kwargs[j][2] => users[i].id = user_id
    /\ LET u == update_user(users, user_id, kwargs)
       IN  Done("update_user", [user_id |-> user_id, kwargs |-> kwargs],
                [ret |-> IF u.exc = None THEN RetNone ELSE Raise(u.exc),
                 users |-> u.users, calls |-> 1])
    /\ UNCHANGED <<nextTok, plain, pc>>

NextDB ==
    \/ \E e \in Emails : AddUser(e, hash_password(PASSWD, "saltA"))
    \/ \E k \in DBKeys : \E v \in DBValues(k) : FindUserBy(k, v)
    \/ \E id \in DBValues("id"), kw \in Kwargs : UpdateUser(id, kw)

SpecDB == Init /\ [][NextDB]_vars

----------------------------------------------------------------------------
(* Properties *)

Rows(us) == 1..Len(us)
Registered(us, email) == \E i \in Rows(us) : us[i].email = email

\* C1: valid_login(email, password) returns True exactly when a user with
\* that email exists and password is the plaintext last hashed into its row
\* (by register_user or update_password); for an unknown email it returns
\* False, it never raises, and it leaves the table as it was.
C1_ValidLogin ==
    last.op = "valid_login" =>
        /\ users = pre.users
        /\ last.ret.kind = "bool"
        /\ last.ret.val =
               (\E i \in Rows(pre.users) :
                    /\ pre.users[i].email = last.args.email
                    /\ pre.plain[i] = last.args.password)

\* A login with the registered password has succeeded.
C1_Witness ==
    /\ last.op = "valid_login"
    /\ last.ret = RetBool(TRUE)
    /\ \E i \in Rows(users) :
           users[i].email = last.args.email /\ plain[i] = last.args.password

\* C2: register_user for an email that already has a row raises ValueError
\* and leaves the table as it was: no row is added, the stored digest still
\* verifies against the original password and not against the new one, and
\* a session id stored before the call still resolves to the user.
C2_RegisterExisting ==
    last.op = "register_user" /\ Registered(pre.users, last.args.email) =>
        /\ last.ret = Raise("ValueError")
        /\ users = pre.users
        /\ \A i \in Rows(pre.users) :
               pre.users[i].email = last.args.email =>
                   /\ i \in Rows(users)
                   /\ valid_login(users, last.args.email, pre.plain[i]).ret
                          = RetBool(TRUE)
                   /\ last.args.password # pre.plain[i] =>
                          valid_login(users, last.args.email, last.args.password).ret
                              = RetBool(FALSE)
                   /\ pre.users[i].session_id # None =>
                          get_user_from_session_id(users, pre.users[i].session_id).ret
                              = RetUser(pre.users[i])

\* A second registration with another password was refused while the user
\* held a session.
C2_Witness ==
    /\ last.op = "register_user"
    /\ last.ret = Raise("ValueError")
    /\ \E i \in Rows(pre.users) :
           /\ pre.users[i].email = last.args.email
           /\ pre.plain[i] # last.args.password
           /\ pre.users[i].session_id # None

\* C3: no two rows of the users table hold the same email.
C3_OneUserPerEmail ==
    \A i, j \in Rows(users) : i # j => users[i].email # users[j].email

\* C4: create_session for a registered email returns a session id that
\* get_user_from_session_id resolves to exactly that user's row; a session
\* id that resolves to a user keeps resolving to that user across every
\* call other than a create_session or destroy_session for that user; and a
\* value stored in no row's session_id resolves to None.
C4_SessionResolves ==
    /\ last.op = "create_session" /\ Registered(pre.users, last.args.email) =>
           /\ last.ret.kind = "str"
           /\ \A i \in Rows(pre.users) :
                  pre.users[i].email = last.args.email =>
                      /\ i \in Rows(users)
                      /\ get_user_from_session_id(users, last.ret.val).ret
                             = RetUser(users[i])
    /\ \A t \in Tokens :
           LET g == get_user_from_session_id(pre.users, t).ret
               h == get_user_from_session_id(users, t).ret
           IN  /\ g.kind = "User"
               /\ ~(last.op = "create_session" /\ last.args.email = g.user.email)
               /\ ~(last.op = "destroy_session" /\ last.args.user_id = g.user.id)
               => /\ h.kind = "User"
                  /\ h.user.id = g.user.id
                  /\ h.user.email = g.user.email
    /\ \A u \in SessionIds :
           (\A i \in Rows(users) : users[i].session_id # u) =>
               get_user_from_session_id(users, u).ret = RetNone

\* A session id handed out earlier has been looked up and resolved to a user.
C4_Witness ==
    /\ last.op = "get_user_from_session_id"
    /\ last.ret.kind = "User"
    /\ last.ret.user.session_id = last.args.session_id

\* C5: after destroy_session(user_id) for an existing user that user's
\* session_id is None and the session id it held resolves to None; a
\* session_id that is None stays None until a create_session for that user,
\* and a drawn token that resolves to nobody never resolves again.
C5_DestroySession ==
    /\ last.op = "destroy_session" =>
           \A i \in Rows(pre.users) :
               pre.users[i].id = last.args.user_id =>
                   /\ i \in Rows(users)
                   /\ users[i].session_id = None
                   /\ pre.users[i].session_id # None =>
                          get_user_from_session_id(users, pre.users[i].session_id).ret
                              = RetNone
    /\ \A i \in Rows(pre.users) :
           /\ pre.users[i].session_id = None
           /\ ~(last.op = "create_session" /\ last.args.email = pre.users[i].email)
           => i \in Rows(users) /\ users[i].session_id = None
    /\ \A n \in 1..(pre.nextTok - 1) :
           get_user_from_session_id(pre.users, Token(n)).ret = RetNone =>
               get_user_from_session_id(users, Token(n)).ret = RetNone

\* The session of a logged-in user has been destroyed.
C5_Witness ==
    /\ last.op = "destroy_session"
    /\ \E i \in Rows(pre.users) :
           pre.users[i].id = last.args.user_id /\ pre.users[i].session_id # None

\* C6: get_reset_password_token for a registered email returns a token that
\* update_password accepts; update_password with the token a row holds
\* succeeds, after it valid_login accepts the new password and rejects the
\* old one (when they differ), and update_password with the same token
\* raises ValueError.
C6_ResetFlow ==
    /\ last.op = "get_reset_password_token"
           /\ Registered(pre.users, last.args.email) =>
               /\ last.ret.kind = "str"
               /\ \A p \in Passwords, s \in Salts :
                      update_password(users, last.ret.val, p, s).ret = RetNone
    /\ last.op = "update_password" /\ last.args.reset_token # None =>
           \A i \in Rows(pre.users) :
               pre.users[i].reset_token = last.args.reset_token =>
                   /\ last.ret = RetNone
                   /\ valid_login(users, pre.users[i].email, last.args.password).ret
                          = RetBool(TRUE)
                   /\ last.args.password # pre.plain[i] =>
                          valid_login(users, pre.users[i].email, pre.plain[i]).ret
                              = RetBool(FALSE)
                   /\ \A p \in Passwords, s \in Salts :
                          update_password(users, last.args.reset_token, p, s).ret
                              = Raise("ValueError")

\* A pending reset token has been used to set a password other than the old.
C6_Witness ==
    /\ last.op = "update_password"
    /\ last.ret = RetNone
    /\ last.args.reset_token # None
    /\ \E i \in Rows(pre.users) :
           /\ pre.users[i].reset_token = last.args.reset_token
           /\ pre.plain[i] # last.args.password

\* C7: create_session for a user who already holds a session id returns a
\* different id, the row's session_id is the new id, the new id resolves to
\* the user and the earlier id resolves to None.
C7_SingleSlot ==
    last.op = "create_session" =>
        \A i \in Rows(pre.users) :
            pre.users[i].email = last.args.email /\ pre.users[i].session_id # None =>
                /\ last.ret.kind = "str"
                /\ last.ret.val # pre.users[i].session_id
                /\ i \in Rows(users)
                /\ users[i].session_id = last.ret.val
                /\ get_user_from_session_id(users, last.ret.val).ret = RetUser(users[i])
                /\ get_user_from_session_id(users, pre.users[i].session_id).ret
                       = RetNone

\* A second session has been created for a user who held one.
C7_Witness ==
    /\ last.op = "create_session"
    /\ \E i \in Rows(pre.users) :
           pre.users[i].email = last.args.email /\ pre.users[i].session_id # None

\* C8: a session_id other than None is held by at most one row, and a
\* reset_token other than None is held by at most one row.
C8_TokensUnique ==
    \A i, j \in Rows(users) :
        i # j =>
            /\ users[i].session_id # None => users[i].session_id # users[j].session_id
            /\ users[i].reset_token # None => users[i].reset_token # users[j].reset_token

\* Two users hold a session id, or two users hold a reset token.
C8_Witness ==
    \E i, j \in Rows(users) :
        /\ i # j
        /\ \/ users[i].session_id # None /\ users[j].session_id # None
           \/ users[i].reset_token # None /\ users[j].reset_token # None

\* C9: register_user adds one row, with session_id and reset_token None; a
\* row's session_id becomes a value other than None only by create_session
\* for its email and becomes None only by destroy_session for its id; its
\* reset_token becomes a value other than None only by
\* get_reset_password_token for its email and becomes None only by an
\* update_password that succeeded with that token and stored a digest of
\* the new password in the same call.
C9_Lifecycle ==
    /\ last.op = "register_user" /\ last.ret.kind = "User" =>
           /\ Len(users) = Len(pre.users) + 1
           /\ last.ret.user = users[Len(users)]
           /\ users[Len(users)].email = last.args.email
           /\ users[Len(users)].session_id = None
           /\ users[Len(users)].reset_token = None
           /\ checkpw(last.args.password, users[Len(users)].hashed_password)
    /\ \A i \in Rows(pre.users) :
           /\ i \in Rows(users)
           /\ users[i].session_id # pre.users[i].session_id =>
                  IF users[i].session_id # None
                  THEN /\ last.op = "create_session"
                       /\ last.args.email = pre.users[i].email
                  ELSE /\ last.op = "destroy_session"
                       /\ last.args.user_id = pre.users[i].id
           /\ users[i].reset_token # pre.users[i].reset_token =>
                  IF users[i].reset_token # None
                  THEN /\ last.op = "get_reset_password_token"
                       /\ last.args.email = pre.users[i].email
                  ELSE /\ last.op = "update_password"
                       /\ last.ret = RetNone
                       /\ last.args.reset_token = pre.users[i].reset_token
                       /\ checkpw(last.args.password, users[i].hashed_password)

\* A successful update_password has cleared a pending reset token.
C9_Witness ==
    /\ last.op = "update_password"
    /\ \E i \in Rows(pre.users) :
           pre.users[i].reset_token # None /\ users[i].reset_token = None

\* C10 as stated: get_user_from_session_id returns None without any store
\* call whenever session_id is None or empty, and never returns a user
\* whose session_id is None.
C10_NoLookupForNullOrEmpty ==
    last.op = "get_user_from_session_id" =>
        /\ last.args.session_id \in {None, ""} =>
               last.ret = RetNone /\ last.calls = 0
        /\ last.ret.kind = "User" => last.ret.user.session_id # None

\* C10 as amended: get_user_from_session_id returns None without any store
\* call when session_id is None; for the empty string it makes one store
\* lookup, which matches no row, and returns None; it never returns a user
\* whose session_id is None.
C10_NullSessionId ==
    last.op = "get_user_from_session_id" =>
        /\ last.args.session_id = None => last.ret = RetNone /\ last.calls = 0
        /\ last.args.session_id = "" => last.ret = RetNone /\ last.calls = 1
        /\ last.ret.kind = "User" => last.ret.user.session_id # None

\* None was presented while a registered user held no session.
C10_Witness ==
    /\ last.op = "get_user_from_session_id"
    /\ last.args.session_id = None
    /\ \E i \in Rows(users) : users[i].session_id = None

\* C11: create_session for an email that has no row returns None, raises
\* nothing, draws no uuid and leaves the table as it was.
C11_CreateSessionUnknown ==
    last.op = "create_session" /\ ~Registered(pre.users, last.args.email) =>
        /\ last.ret = RetNone
        /\ nextTok = pre.nextTok
        /\ users = pre.users

\* create_session was called for an unknown email while another user is
\* registered.
C11_Witness ==
    /\ last.op = "create_session"
    /\ ~Registered(pre.users, last.args.email)
    /\ Len(pre.users) > 0

\* C12: destroy_session for a user_id that matches no row returns None,
\* raises nothing and leaves the table as it was; for the id of a row it
\* changes nothing but that row's session_id.
C12_DestroySessionFrame ==
    last.op = "destroy_session" =>
        /\ last.ret = RetNone
        /\ Len(users) = Len(pre.users)
        /\ (\A i \in Rows(pre.users) : pre.users[i].id # last.args.user_id) =>
               users = pre.users
        /\ \A i \in Rows(pre.users) :
               IF pre.users[i].id = last.args.user_id
               THEN users[i] = [pre.users[i] EXCEPT !.session_id = users[i].session_id]
               ELSE users[i] = pre.users[i]

\* destroy_session was called for an unknown id while a user held a session.
C12_Witness ==
    /\ last.op = "destroy_session"
    /\ \A i \in Rows(pre.users) : pre.users[i].id # last.args.user_id
    /\ \E i \in Rows(pre.users) : pre.users[i].session_id # None

\* C13: get_reset_password_token for an email that has no row raises
\* ValueError and leaves the table as it was; for a registered email it
\* returns a token, stores it as that row's reset_token, changes nothing
\* else, and find_user_by(reset_token=token) resolves to that row.
C13_GetResetToken ==
    last.op = "get_reset_password_token" =>
        IF ~Registered(pre.users, last.args.email)
        THEN /\ last.ret = Raise("ValueError")
             /\ users = pre.users
             /\ nextTok = pre.nextTok
        ELSE /\ last.ret.kind = "str"
             /\ Len(users) = Len(pre.users)
             /\ \A i \in Rows(pre.users) :
                    IF pre.users[i].email = last.args.email
                    THEN /\ users[i] = [pre.users[i] EXCEPT
                                           !.reset_token = last.ret.val]
                         /\ find_user_by(users, "reset_token", last.ret.val)
                                = RetUser(users[i])
                    ELSE users[i] = pre.users[i]

\* A reset token was refused for an unknown email while another user is
\* registered.
C13_Witness ==
    /\ last.op = "get_reset_password_token"
    /\ last.ret = Raise("ValueError")
    /\ Len(users) > 0

\* The last request of p was op and has returned.
HasReturned(p, op) ==
    pc[p].at = "idle" /\ "op" \in DOMAIN pc[p] /\ pc[p].op = op

\* C14: a create_session that found its user returns a session id also when
\* another create_session for the same email runs between its lookup and
\* its update; once two requests have both returned ids for one email, the
\* ids differ, the row's session_id is one of them (the id of the request
\* that wrote last), that id resolves to the user and the other to None.
C14_LastWriterWins ==
    /\ \A p \in Drawing : FirstMatch(users, "id", pc[p].user_id) # 0
    /\ \A p \in Procs : HasReturned(p, "create_session") => pc[p].ret.kind # "raise"
    /\ \A p, q \in Procs :
           /\ p # q
           /\ HasReturned(p, "create_session") /\ pc[p].ret.kind = "str"
           /\ HasReturned(q, "create_session") /\ pc[q].ret.kind = "str"
           /\ pc[p].args.email = pc[q].args.email
           => LET i == FirstMatch(users, "email", pc[p].args.email)
                  held == users[i].session_id
              IN  /\ pc[p].ret.val # pc[q].ret.val
                  /\ held \in {pc[p].ret.val, pc[q].ret.val}
                  /\ last.op = "create_session"
                         /\ last.args.email = pc[p].args.email
                         => held = last.ret.val
                  /\ get_user_from_session_id(users, held).ret = RetUser(users[i])
                  /\ \A t \in {pc[p].ret.val, pc[q].ret.val} \ {held} :
                         get_user_from_session_id(users, t).ret = RetNone

\* Two create_session requests for one email have both returned an id, one
\* of them having made its lookup while the other was before its update.
C14_Witness ==
    \E p, q \in Procs :
        /\ p # q
        /\ HasReturned(p, "create_session") /\ pc[p].ret.kind = "str"
        /\ HasReturned(q, "create_session") /\ pc[q].ret.kind = "str"
        /\ pc[p].args.email = pc[q].args.email
        /\ pc[p].args.overlap

\* C20: of two update_password requests that presented the same reset
\* token, at most one has succeeded.
C20_SingleUse ==
    \A p, q \in Procs :
        /\ p # q
        /\ HasReturned(p, "update_password")
        /\ HasReturned(q, "update_password")
        /\ pc[p].args.reset_token = pc[q].args.reset_token
        /\ pc[p].ret = RetNone
        => pc[q].ret # RetNone

\* C19: a row's hashed_password changes only in an update_password call
\* whose reset_token argument is a token that row held (issued by
\* get_reset_password_token and neither consumed nor replaced), and an
\* update_password call with any other argument, None included, raises
\* ValueError and leaves the table as it was.
C19_PasswordOnlyByToken ==
    /\ \A i \in Rows(pre.users) :
           users[i].hashed_password # pre.users[i].hashed_password =>
               /\ last.op = "update_password"
               /\ last.args.reset_token \in Tokens
               /\ pre.users[i].reset_token = last.args.reset_token
    /\ last.op = "update_password"
           /\ (\A i \in Rows(pre.users) :
                   pre.users[i].reset_token \notin Tokens
                       \/ pre.users[i].reset_token # last.args.reset_token) =>
               /\ last.ret = Raise("ValueError")
               /\ users = pre.users

\* C15: POST /sessions answers with a session_id cookie only for a registered
\* email submitted with the password last hashed into its row, and then the
\* cookie is the row's new session_id; with a wrong password or an unknown
\* email it answers 401 without a cookie and leaves every row as it was.
C15_LoginGate ==
    last.op = "POST /sessions" =>
        LET valid == \E i \in Rows(pre.users) :
                         /\ pre.users[i].email = last.args.email
                         /\ pre.plain[i] = last.args.password
        IN  /\ last.ret.cookie # None =>
                   /\ valid
                   /\ last.ret.status = 200
                   /\ last.ret.cookie \in Tokens
                   /\ \E i \in Rows(users) :
                          /\ users[i].email = last.args.email
                          /\ users[i].session_id = last.ret.cookie
            /\ ~Falsy(last.args.email) /\ ~Falsy(last.args.password) /\ ~valid =>
                   /\ last.ret.status = 401
                   /\ last.ret.cookie = None
                   /\ users = pre.users

\* A login with a wrong password for a user who holds a session was denied.
C15_Witness ==
    /\ last.op = "POST /sessions"
    /\ last.ret.status = 401
    /\ \E i \in Rows(pre.users) :
           /\ pre.users[i].email = last.args.email
           /\ last.args.password \in Passwords
           /\ pre.plain[i] # last.args.password
           /\ pre.users[i].session_id # None

\* C18: POST /reset_password with an email answers 200 with the reset token
\* now stored for that user when the email is registered, and 401 when it
\* is not.
C18_ResetRequestStatus ==
    last.op = "POST /reset_password" /\ ~Falsy(last.args.email) =>
            IF Registered(pre.users, last.args.email)
            THEN /\ last.ret.status = 200
                 /\ \E i \in Rows(users) :
                        /\ users[i].email = last.args.email
                        /\ users[i].reset_token = last.ret.reset_token
            ELSE last.ret.status = 401

\* The rows of us whose attribute key holds value.
Matching(us, key, value) == {i \in Rows(us) : us[i][key] = value}

Updated(u, kwargs) ==
    [c \in DOMAIN u |->
        IF \E j \in 1..Len(kwargs) : kwargs[j][1] = c
        THEN kwargs[CHOOSE j \in 1..Len(kwargs) : kwargs[j][1] = c][2]
        ELSE u[c]]

C21_UpdatePasswordFrame ==
    last.op = "update_password" /\ last.ret = RetNone =>
        LET m == {i \in Rows(pre.users) :
                      pre.users[i].reset_token = last.args.reset_token}
        IN  /\ m # {}
            /\ Len(users) = Len(pre.users)
            /\ \A i \in Rows(users) :
                   IF i = Min(m)
                   THEN /\ users[i].id = pre.users[i].id
                        /\ users[i].email = pre.users[i].email
                        /\ users[i].session_id = pre.users[i].session_id
                        /\ users[i].reset_token = None
                        /\ checkpw(last.args.password, users[i].hashed_password)
                        /\ pre.users[i].session_id # None =>
                               get_user_from_session_id(users,
                                   pre.users[i].session_id).ret = RetUser(users[i])
                   ELSE users[i] = pre.users[i]

\* A user with an open session, in a table with another user, has reset the
\* password to a different one with an issued token.
C21_Witness ==
    /\ last.op = "update_password"
    /\ last.ret = RetNone
    /\ last.args.reset_token \in Tokens
    /\ Len(users) >= 2
    /\ \E i \in Rows(pre.users) :
           /\ pre.users[i].reset_token = last.args.reset_token
           /\ pre.users[i].session_id \in Tokens
           /\ users[i].hashed_password # pre.users[i].hashed_password

====
